---------------------------- MODULE Spec2Model ----------------------------
(***************************************************************************)
(* Model of BPL_TEST2_Batch_fmpy_explore.py: the parameter store (parDict), *)
(* the location mapping (parLocation), the state entries (stateDict), the   *)
(* continuation cursor (prevFinalTime) and the operations par(), init(),    *)
(* newplot() and simu() that act on them.                                   *)
(*                                                                         *)
(* Numbers: the script's floats are represented as integers scaled by ten   *)
(* (0.5 is 5, 1.0 is 10, 10.0 is 100); times are whole time units.          *)
(* Python's None is a number no value of the model takes.  A global is a   *)
(* record whose field "defined" tells whether the name has been assigned:   *)
(* sim_res is Undefined or Defined([time |-> ..., cols |-> ...]),           *)
(* start_values is Undefined or Defined([map |-> location -> value]).       *)
(***************************************************************************)
EXTENDS Integers, Sequences, FiniteSets, TLC

None == -999
NoDerivative == "no derivative"
Undefined == [defined |-> FALSE]
Defined(content) == [defined |-> TRUE, content |-> content]

(***************************************************************************)
(* Bounds of the model.                                                     *)
(***************************************************************************)
\* longest simulated horizon: runs are only issued while they end by MaxTime
MaxTime == 2
\* number of different result tables the external model may answer with
MaxSeed == 2
\* an update map passed to par()/init() names at most MaxUpdKeys keys
MaxUpdKeys == 2
\* a catalog examined at start-up has at most MaxKeys state keys
MaxKeys == 2

(***************************************************************************)
(* The external model's variable catalog (model_description.modelVariables).*)
(* The FMU is an input of the script; the catalog below holds the names the *)
(* script itself refers to (parLocation, key_variables, the diagrams of     *)
(* newplot() and describe()).  A variable "der(x)" carries the derivative   *)
(* link to x, as FMPy reports it.                                           *)
(***************************************************************************)
Var(n, c, v, s, d) ==
    [name |-> n, causality |-> c, variability |-> v, start |-> s, derivative |-> d]

modelVariables ==
    << Var("bioreactor.V_start",       "parameter", "fixed",      10,   NoDerivative),
       Var("bioreactor.m_start[1]",    "parameter", "fixed",      10,   NoDerivative),
       Var("bioreactor.m_start[2]",    "parameter", "fixed",      100,  NoDerivative),
       Var("bioreactor.culture.Y",     "parameter", "fixed",      5,    NoDerivative),
       Var("bioreactor.culture.qSmax", "parameter", "fixed",      10,   NoDerivative),
       Var("bioreactor.culture.Ks",    "parameter", "fixed",      1,    NoDerivative),
       Var("bioreactor.V",             "local",     "continuous", None, NoDerivative),
       Var("bioreactor.m[1]",          "local",     "continuous", None, NoDerivative),
       Var("bioreactor.m[2]",          "local",     "continuous", None, NoDerivative),
       Var("der(bioreactor.V)",        "local",     "continuous", None, "bioreactor.V"),
       Var("der(bioreactor.m[1])",     "local",     "continuous", None, "bioreactor.m[1]"),
       Var("der(bioreactor.m[2])",     "local",     "continuous", None, "bioreactor.m[2]"),
       Var("bioreactor.c[1]",          "local",     "continuous", None, NoDerivative),
       Var("bioreactor.c[2]",          "local",     "continuous", None, NoDerivative),
       Var("bioreactor.culture.mu",    "local",     "continuous", None, NoDerivative),
       Var("liquidphase.X",            "local",     "constant",   1,    NoDerivative),
       Var("liquidphase.mw[1]",        "local",     "constant",   246,  NoDerivative),
       Var("bioreactor.n",             "calculatedParameter", "fixed", 2, NoDerivative) >>

Range(s) == {s[i] : i \in DOMAIN s}

CatalogNames == {modelVariables[i].name : i \in DOMAIN modelVariables}

(***************************************************************************)
(* Python dictionaries are functions; dict(list(a.items())+list(b.items())) *)
(* and a.update(b) keep b's value for a key both have.                      *)
(***************************************************************************)
Merge(a, b) ==
    [k \in (DOMAIN a) \cup (DOMAIN b) |-> IF k \in DOMAIN b THEN b[k] ELSE a[k]]

(***************************************************************************)
(* stateDict, stateDictInitial, stateDictInitialLoc as built at start-up.   *)
(***************************************************************************)
StateKeys ==
    {modelVariables[i].derivative : i \in {j \in DOMAIN modelVariables :
                                             modelVariables[j].derivative # NoDerivative}}

stateDict0 == [key \in StateKeys |-> None]

\* list(stateDict.keys()): the keys in the order the catalog gave them
keysOf(sd) ==
    LET ders == SelectSeq(modelVariables,
                          LAMBDA v : v.derivative # NoDerivative /\ v.derivative \in DOMAIN sd)
    IN  [k \in DOMAIN ders |-> ders[k].derivative]

(***************************************************************************)
(* The loop that derives stateDictInitial works on the characters of a key. *)
(* Spelling gives the characters of the names the model derives names for:  *)
(* the state keys of the catalog, their initial-value names, and keys of    *)
(* other catalogs: indexed with two, three and four digits, an integrator   *)
(* state (I.y), a derivative-filter state (D.x), the bare name D.x that is  *)
(* shorter than ten characters, and x], which has no opening bracket.       *)
(***************************************************************************)
Spelling ==
    [name \in {"bioreactor.V", "bioreactor.m[1]", "bioreactor.m[2]",
                "bioreactor.V_start", "bioreactor.m_start[1]", "bioreactor.m_start[2]",
                "foo[12]", "foo[123]", "foo[1234]",
                "c.limPID.I.y", "c.limPID.D.x", "D.x",
                "x]"} |->
        CASE name = "bioreactor.V" -> << "b", "i", "o", "r", "e", "a", "c", "t", "o", "r", ".", "V" >>
          [] name = "bioreactor.m[1]" -> << "b", "i", "o", "r", "e", "a", "c", "t", "o", "r", ".", "m", "[", "1", "]" >>
          [] name = "bioreactor.m[2]" -> << "b", "i", "o", "r", "e", "a", "c", "t", "o", "r", ".", "m", "[", "2", "]" >>
          [] name = "bioreactor.V_start" -> << "b", "i", "o", "r", "e", "a", "c", "t", "o", "r", ".", "V", "_", "s", "t", "a", "r", "t" >>
          [] name = "bioreactor.m_start[1]" -> << "b", "i", "o", "r", "e", "a", "c", "t", "o", "r", ".", "m", "_", "s", "t", "a", "r", "t", "[", "1", "]" >>
          [] name = "bioreactor.m_start[2]" -> << "b", "i", "o", "r", "e", "a", "c", "t", "o", "r", ".", "m", "_", "s", "t", "a", "r", "t", "[", "2", "]" >>
          [] name = "foo[12]" -> << "f", "o", "o", "[", "1", "2", "]" >>
          [] name = "foo[123]" -> << "f", "o", "o", "[", "1", "2", "3", "]" >>
          [] name = "foo[1234]" -> << "f", "o", "o", "[", "1", "2", "3", "4", "]" >>
          [] name = "c.limPID.I.y" -> << "c", ".", "l", "i", "m", "P", "I", "D", ".", "I", ".", "y" >>
          [] name = "c.limPID.D.x" -> << "c", ".", "l", "i", "m", "P", "I", "D", ".", "D", ".", "x" >>
          [] name = "D.x" -> << "D", ".", "x" >>
          [] name = "x]" -> << "x", "]" >>]

Spell(name) == Spelling[name]
Unspell(chars) == CHOOSE name \in DOMAIN Spelling : Spelling[name] = chars

\* key[-n:]
lastChars(key, n) == SubSeq(key, IF Len(key) > n THEN Len(key) - n + 1 ELSE 1, Len(key))
\* key[:-n]
dropChars(key, n) == IF Len(key) > n THEN SubSeq(key, 1, Len(key) - n) ELSE << >>

\* what one pass of the loop body does with a key: an entry, the print-and-break
\* of the else branch, or an IndexError of key[-3], key[-4], key[-5]
Derived(name) == [kind |-> "entry", name |-> name]
Unsupported == [kind |-> "break", name |-> << >>]
IndexError == [kind |-> "IndexError", name |-> << >>]

\* a mutant of stateDictInitialEntry: I.y and D.x keys lose their three-character
\* suffix only
stateDictInitialEntry_dropSuffix(key) ==
    IF Len(key) < 1 THEN IndexError
    ELSE IF key[Len(key)] # "]"
    THEN IF lastChars(key, 3) = << "I", ".", "y" >>
         THEN Derived(dropChars(key, 3) \o << "I", "_", "s", "t", "a", "r", "t" >>)
         ELSE IF lastChars(key, 3) = << "D", ".", "x" >>
         THEN Derived(dropChars(key, 3) \o << "D", "_", "s", "t", "a", "r", "t" >>)
         ELSE Derived(key \o << "_", "s", "t", "a", "r", "t" >>)
    ELSE IF Len(key) < 3 THEN IndexError
    ELSE IF key[Len(key) - 2] = "["
    THEN Derived(dropChars(key, 3) \o << "_", "s", "t", "a", "r", "t" >> \o lastChars(key, 3))
    ELSE IF Len(key) < 4 THEN IndexError
    ELSE IF key[Len(key) - 3] = "["
    THEN Derived(dropChars(key, 4) \o << "_", "s", "t", "a", "r", "t" >> \o lastChars(key, 4))
    ELSE IF Len(key) < 5 THEN IndexError
    ELSE IF key[Len(key) - 4] = "["
    THEN Derived(dropChars(key, 5) \o << "_", "s", "t", "a", "r", "t" >> \o lastChars(key, 5))
    ELSE Unsupported

\* the body of "for key in stateDict.keys()"
stateDictInitialEntry(key) ==
    IF Len(key) < 1 THEN IndexError
    ELSE IF key[Len(key)] # "]"
    THEN IF lastChars(key, 3) = << "I", ".", "y" >>
         THEN Derived(dropChars(key, 10) \o << "I", "_", "s", "t", "a", "r", "t" >>)
         ELSE IF lastChars(key, 3) = << "D", ".", "x" >>
         THEN Derived(dropChars(key, 10) \o << "D", "_", "s", "t", "a", "r", "t" >>)
         ELSE Derived(key \o << "_", "s", "t", "a", "r", "t" >>)
    ELSE IF Len(key) < 3 THEN IndexError
    ELSE IF key[Len(key) - 2] = "["
    THEN Derived(dropChars(key, 3) \o << "_", "s", "t", "a", "r", "t" >> \o lastChars(key, 3))
    ELSE IF Len(key) < 4 THEN IndexError
    ELSE IF key[Len(key) - 3] = "["
    THEN Derived(dropChars(key, 4) \o << "_", "s", "t", "a", "r", "t" >> \o lastChars(key, 4))
    ELSE IF Len(key) < 5 THEN IndexError
    ELSE IF key[Len(key) - 4] = "["
    THEN Derived(dropChars(key, 5) \o << "_", "s", "t", "a", "r", "t" >> \o lastChars(key, 5))
    ELSE Unsupported

\* the loop over the keys: map is stateDictInitial so far.  The else branch prints
\* and leaves the loop, and the script goes on; an IndexError ends the script.
RECURSIVE stateDictInitialLoop(_, _)
stateDictInitialLoop(keys, map) ==
    IF keys = << >> THEN [pc |-> "ready", map |-> map, diag |-> {}]
    ELSE LET entry == stateDictInitialEntry(Head(keys)) IN
         IF entry.kind = "entry"
         THEN stateDictInitialLoop(Tail(keys), Merge(map, [key \in {Head(keys)} |-> entry.name]))
         ELSE IF entry.kind = "break"
         THEN [pc |-> "ready", map |-> map,
               diag |-> {"The state vector has more than 1000 states"}]
         ELSE [pc |-> "aborted", map |-> map, diag |-> {"IndexError"}]

\* the state keys of the catalog, spelled, in the order of stateDict.keys()
catalogKeys == [i \in DOMAIN keysOf(stateDict0) |-> Spell(keysOf(stateDict0)[i])]

\* the derived initial-value name of each state key of the catalog
stateDictInitial ==
    [key \in StateKeys |-> Unspell(stateDictInitialLoop(catalogKeys, << >>).map[Spell(key)])]


stateDictInitialLoc ==
    [value \in Range(stateDictInitial) |-> value]

(***************************************************************************)
(* parDict, parLocation, key_variables and parCheck as set at start-up.     *)
(***************************************************************************)
parDict0 ==
    [k \in {"V_start", "VX_start", "VS_start", "Y", "qSmax", "Ks"} |->
        CASE k = "V_start"  -> 10
          [] k = "VX_start" -> 10
          [] k = "VS_start" -> 100
          [] k = "Y"        -> 5
          [] k = "qSmax"    -> 10
          [] k = "Ks"       -> 1]

parLocation ==
    [k \in {"V_start", "VX_start", "VS_start", "Y", "qSmax", "Ks",
            "mu", "V", "VX", "VS"} |->
        CASE k = "V_start"  -> "bioreactor.V_start"
          [] k = "VX_start" -> "bioreactor.m_start[1]"
          [] k = "VS_start" -> "bioreactor.m_start[2]"
          [] k = "Y"        -> "bioreactor.culture.Y"
          [] k = "qSmax"    -> "bioreactor.culture.qSmax"
          [] k = "Ks"       -> "bioreactor.culture.Ks"
          [] k = "mu"       -> "bioreactor.culture.mu"
          [] k = "V"        -> "bioreactor.V"
          [] k = "VX"       -> "bioreactor.m[1]"
          [] k = "VS"       -> "bioreactor.m[2]"]

key_variables ==
    << parLocation["mu"], parLocation["V"], parLocation["VX"], parLocation["VS"] >>

\* parCheck: each requirement is "parDict[key] > 0" (strict) or "parDict[key] >= 0"
parCheck ==
    << [key |-> "Y",        strict |-> TRUE],
       [key |-> "qSmax",    strict |-> TRUE],
       [key |-> "Ks",       strict |-> TRUE],
       [key |-> "V_start",  strict |-> TRUE],
       [key |-> "VX_start", strict |-> FALSE],
       [key |-> "VS_start", strict |-> FALSE] >>

\* eval(requirement) against the store pd
Holds(requirement, pd) ==
    IF requirement.strict THEN pd[requirement.key] > 0 ELSE pd[requirement.key] >= 0

(***************************************************************************)
(* Inputs of par() and init(): update maps over a few keys.  "Y" is a plain *)
(* parameter of the store, "V_start" an initial value of the store,         *)
(* "bogus_name" is in no dictionary and "bioreactor.V_start" is a location   *)
(* name, not a key of the store, that contains '_start'.                    *)
(***************************************************************************)
UpdKeys == {"Y", "V_start", "bogus_name", "bioreactor.V_start"}

\* the value an update gives a key: 0.6 (6), and 0 for V_start, which breaks its
\* requirement "parDict['V_start'] > 0"
UpdValue(key) == IF key = "V_start" THEN 0 ELSE 6

\* '_start' in key
ContainsStart(key) ==
    key \in {"V_start", "VX_start", "VS_start", "bioreactor.V_start"}

Updates ==
    {[key \in S |-> UpdValue(key)] : S \in {T \in SUBSET UpdKeys : Cardinality(T) <= MaxUpdKeys}}

(***************************************************************************)
(* The state.                                                               *)
(***************************************************************************)
VARIABLES
    parDict,        \* Parameter Store: name -> value
    stateDict,      \* State Entries: state key -> last value or None
    prevFinalTime,  \* continuation cursor
    sim_res,        \* most recent Simulation Result, or Undefined
    start_values,   \* most recent override set (location -> value), or Undefined
    diagrams,       \* list of diagram commands
    linecycler,     \* Undefined until setLines() has run, then "cycle"
    last,           \* the most recent operation: what was called and what it reported
    freshDone,      \* a fresh-mode run has completed (history)
    startKeys,      \* start-up: the state keys of the catalog, spelled, in order
    startInitial,   \* start-up: stateDictInitial over spelled keys
    startPc,        \* start-up: "loading", then "ready" or "aborted"
    startDiag       \* start-up: what the script printed or raised

startVars == << startKeys, startInitial, startPc, startDiag >>

vars == << parDict, stateDict, prevFinalTime, sim_res, start_values,
           diagrams, linecycler, last, freshDone, startVars >>

NoCall == [made |-> FALSE]

Report(op, input, outcome, diag, call) ==
    [op |-> op, input |-> input, outcome |-> outcome, diag |-> diag, call |-> call]

Init ==
    /\ parDict = parDict0
    /\ stateDict = stateDict0
    /\ prevFinalTime = 0
    /\ sim_res = Undefined
    /\ start_values = Undefined
    /\ diagrams = << >>
    /\ linecycler = Undefined
    /\ last = Report("start", << >>, "ok", {}, NoCall)
    /\ freshDone = FALSE
    /\ startKeys = catalogKeys
    /\ startInitial = stateDictInitialLoop(catalogKeys, << >>).map
    /\ startPc = "ready"
    /\ startDiag = {}

(***************************************************************************)
(* par(): parameter update.                                                 *)
(***************************************************************************)
Restrict(f, S) == [k \in S |-> f[k]]

Diag(kind, about) == [kind |-> kind, about |-> about]

\* a mutant of x_temp: every key of the update is staged
x_temp_unfiltered(pd, x) == x

\* x_temp: the keys of the update that are keys of the store
x_temp(pd, x) == Restrict(x, {key \in DOMAIN x : key \in DOMAIN pd})

\* the keys par() prints "seems not an accessible parameter" for
parRejected(pd, x) == {key \in DOMAIN x : key \notin DOMAIN pd}

\* a mutant of parUpdate: the update is applied to the start-up store
parUpdate_fromDefaults(pd, x) == Merge(parDict0, x_temp(pd, x))

\* a mutant of parUpdate: the update is dropped when a requirement fails
parUpdate_failClosed(pd, x) ==
    IF \A i \in DOMAIN parCheck : Holds(parCheck[i], Merge(pd, x_temp(pd, x)))
    THEN Merge(pd, x_temp(pd, x)) ELSE pd

\* parDict.update(x_temp)
parUpdate(pd, x) == Merge(pd, x_temp(pd, x))

\* parErrors: the requirements of parCheck that do not hold of the store pd
parErrors(pd) == SelectSeq(parCheck, LAMBDA requirement : ~Holds(requirement, pd))

parDiag(pd, x) ==
    {Diag("not an accessible parameter", key) : key \in parRejected(pd, x)}
      \cup {Diag("requirement does not hold", r.key) : r \in Range(parErrors(parUpdate(pd, x)))}

par(x) ==
    /\ parDict' = parUpdate(parDict, x)
    /\ last' = Report("par", x, "ok", parDiag(parDict, x), NoCall)
    /\ UNCHANGED << stateDict, prevFinalTime, sim_res, start_values,
                    diagrams, linecycler, freshDone, startVars >>

(***************************************************************************)
(* init(): initial-value update.                                            *)
(***************************************************************************)
\* a mutant of x_init: every key of the update is staged
x_init_unfiltered(x) == x

\* x_init: the keys of the update whose name contains '_start'
x_init(x) == Restrict(x, {key \in DOMAIN x : ContainsStart(key)})

initRejected(x) == {key \in DOMAIN x : ~ContainsStart(key)}

\* a mutant of initUpdate: the new value is added to the stored one
initUpdate_accumulate(pd, x) ==
    [k \in (DOMAIN pd) \cup (DOMAIN x_init(x)) |->
        IF k \notin DOMAIN x_init(x) THEN pd[k]
        ELSE IF k \in DOMAIN pd THEN pd[k] + x[k] ELSE x[k]]

\* parDict.update(x_init)
initUpdate(pd, x) == Merge(pd, x_init(x))

\* init() prints the rejected keys and nothing else
initDiag(pd, x) == {Diag("not an initial value", key) : key \in initRejected(x)}

init(x) ==
    /\ parDict' = initUpdate(parDict, x)
    /\ last' = Report("init", x, "ok", initDiag(parDict, x), NoCall)
    /\ UNCHANGED << stateDict, prevFinalTime, sim_res, start_values,
                    diagrams, linecycler, freshDone, startVars >>

(***************************************************************************)
(* newplot(): setLines() resets the pens, a known plot type replaces the    *)
(* diagram commands.  A command is represented by the sim_res columns its   *)
(* text names; sim_res['time'] is in every command.                         *)
(***************************************************************************)
PlotTypes == {"TimeSeries", "Unknown"}

newplotDiagrams(plotType, old) ==
    CASE plotType = "TimeSeries" ->
            << {"time", "bioreactor.c[1]"}, {"time", "bioreactor.c[2]"},
               {"time", "bioreactor.culture.mu"} >>
      [] OTHER -> old

setLines == Defined("cycle")

newplot(plotType) ==
    /\ linecycler' = setLines
    /\ diagrams' = newplotDiagrams(plotType, diagrams)
    /\ last' = Report("newplot", plotType, "ok",
                      IF plotType \in {"TimeSeries"} THEN {}
                      ELSE {Diag("plot window type not correct", plotType)}, NoCall)
    /\ UNCHANGED << parDict, stateDict, prevFinalTime, sim_res, start_values, freshDone,
                    startVars >>

(***************************************************************************)
(* model_get(): the value of a model variable.  sr and sv are the globals   *)
(* sim_res and start_values as the call finds them.  A trajectory is kept   *)
(* as its first and its last sample.  An exception that leaves model_get()  *)
(* is the record Raised(...).                                               *)
(***************************************************************************)
Returned(value) == [value |-> value, raised |-> "nothing", printed |-> "nothing"]
Printed(message) == [value |-> None, raised |-> "nothing", printed |-> message]
Raised(exception) == [value |-> None, raised |-> exception, printed |-> "nothing"]

CatalogEntry(parLoc) ==
    modelVariables[CHOOSE k \in DOMAIN modelVariables : modelVariables[k].name = parLoc]

\* a mutant of model_get: the NameError of an unassigned global is not caught
model_get_uncaught(parLoc, sr, sv) ==
    IF parLoc \notin CatalogNames
    THEN Raised("UnboundLocalError")
    ELSE LET v == CatalogEntry(parLoc) IN
         IF v.causality = "local" /\ v.variability = "constant" THEN Returned(v.start)
         ELSE IF v.causality = "parameter" THEN Returned(v.start)
         ELSE IF v.causality = "calculatedParameter"
              THEN IF ~sr.defined THEN Raised("NameError")
                   ELSE IF v.name \in DOMAIN sr.content.cols
                        THEN Returned(sr.content.cols[v.name][1])
                        ELSE Raised("ValueError")
         ELSE IF ~sv.defined THEN Raised("NameError")
         ELSE IF v.name \in DOMAIN sv.content THEN Returned(sv.content[v.name])
         ELSE IF v.variability = "continuous"
              THEN IF ~sr.defined
                   THEN Raised("NameError")
                   ELSE IF v.name \in DOMAIN sr.content.cols
                        THEN Returned(sr.content.cols[v.name][Len(sr.content.cols[v.name])])
                        ELSE Printed("variable not logged")
         ELSE Returned(None)

model_get(parLoc, sr, sv) ==
    IF parLoc \notin CatalogNames
    THEN Raised("UnboundLocalError")
    ELSE LET v == CatalogEntry(parLoc) IN
         IF v.causality = "local" /\ v.variability = "constant" THEN Returned(v.start)
         ELSE IF v.causality = "parameter" THEN Returned(v.start)
         ELSE IF v.causality = "calculatedParameter"
              THEN IF ~sr.defined THEN Printed("information available after first simulation")
                   ELSE IF v.name \in DOMAIN sr.content.cols
                        THEN Returned(sr.content.cols[v.name][1])
                        ELSE Raised("ValueError")
         ELSE IF ~sv.defined THEN Printed("information available after first simulation")
         ELSE IF v.name \in DOMAIN sv.content THEN Returned(sv.content[v.name])
         ELSE IF v.variability = "continuous"
              THEN IF ~sr.defined
                   THEN Printed("information available after first simulation")
                   ELSE IF v.name \in DOMAIN sr.content.cols
                        THEN Returned(sr.content.cols[v.name][Len(sr.content.cols[v.name])])
                        ELSE Printed("variable not logged")
         ELSE Returned(None)

(***************************************************************************)
(* extract_variables() and the output list of a run.                        *)
(***************************************************************************)
RECURSIVE Concat(_)
Concat(ss) == IF ss = << >> THEN << >> ELSE Head(ss) \o Concat(Tail(ss))

\* variables: the catalog's variables of causality 'local', in catalog order
localVariables == SelectSeq(modelVariables, LAMBDA v : v.causality = "local")

\* variables[k].name in diagrams[j]
Occurs(name, command) == name \in command

extract_variables(dgs) ==
    Concat([j \in DOMAIN dgs |->
              LET hits == SelectSeq(localVariables, LAMBDA v : Occurs(v.name, dgs[j]))
              IN  [k \in DOMAIN hits |-> hits[k].name]])

\* list(set(l)): every element of l once (the order of the list is not used)
RECURSIVE listOfSet(_)
listOfSet(l) ==
    IF l = << >> THEN << >>
    ELSE LET front == listOfSet(SubSeq(l, 1, Len(l) - 1))
         IN  IF l[Len(l)] \in Range(front) THEN front ELSE Append(front, l[Len(l)])

\* a mutant of outputVariables: the list is passed on without set()
outputVariables_noSet(dgs, sd) ==
    extract_variables(dgs) \o keysOf(sd) \o key_variables

\* list(set(extract_variables(diagrams) + list(stateDict.keys()) + key_variables))
outputVariables(dgs, sd) ==
    listOfSet(extract_variables(dgs) \o keysOf(sd) \o key_variables)

(***************************************************************************)
(* The external model (simulate_fmu): a run over [start_time, stop_time]    *)
(* either fails or answers with a table of the requested columns whose time *)
(* column runs from start_time to stop_time.  The samples are the model's   *)
(* business; each catalog variable gets values of its own, and the seed     *)
(* stands for whatever the model computed.                                  *)
(***************************************************************************)
CatalogIndex(name) == CHOOSE k \in DOMAIN modelVariables : modelVariables[k].name = name

Trajectory(name, seed) == << 20 * CatalogIndex(name), 20 * CatalogIndex(name) + seed >>

simulate_fmu(call) ==
    {[time |-> << call.start_time, call.stop_time >>,
      cols |-> [name \in Range(call.output) |-> Trajectory(name, seed)]] : seed \in 1..MaxSeed}

(***************************************************************************)
(* simu()                                                                   *)
(***************************************************************************)
FreshModes == {"Initial", "initial", "init"}
ContModes == {"Continued", "continued", "cont"}
Modes == {"Initial", "cont", "restart"}
Durations == 1..MaxTime

\* {parLocation[k]:parDict[k] for k in parDict.keys()} raises KeyError for a key
\* of the store that parLocation does not have
KeyMissing(pd) == \E k \in DOMAIN pd : k \notin DOMAIN parLocation

\* {loc[k]: val[k] for k in val.keys()}; the locations used are distinct per key
ByLocation(loc, val) ==
    [l \in {loc[k] : k \in DOMAIN val} |->
        val[CHOOSE k \in DOMAIN val : loc[k] = l]]

\* fresh mode: start_values
startValuesFresh(pd) == ByLocation(parLocation, pd)

\* continuation mode: parDictRed / parLocationRed
redKeys(pd) == {key \in DOMAIN pd : parLocation[key] \notin Range(stateDictInitial)}

parDictRed(pd) == Restrict(pd, redKeys(pd))

parLocationRed(pd) ==
    Restrict(parLocation, (DOMAIN parLocation) \ ((DOMAIN pd) \ redKeys(pd)))

parLocationMod(pd) == Merge(parLocationRed(pd), stateDictInitialLoc)

parDictMod(pd, sd) ==
    Merge(parDictRed(pd),
          [name \in {stateDictInitial[key] : key \in DOMAIN sd} |->
              sd[CHOOSE key \in DOMAIN sd : stateDictInitial[key] = name]])

\* a mutant of startValuesCont: the store's initial values are passed again
startValuesCont_fromStore(pd, sd) == ByLocation(parLocation, pd)

\* continuation mode: start_values
startValuesCont(pd, sd) == ByLocation(parLocationMod(pd), parDictMod(pd, sd))

\* mutants of contRefused: no check of the cursor; the check inverted
contRefused_never(cursor) == FALSE
contRefused_inverted(cursor) == cursor # 0

\* if prevFinalTime == 0: the continuation is refused
contRefused(cursor) == cursor = 0

\* a mutant of freshCall: the override set carries the State Entries forward
freshCall_carriedState(pd, sd, dgs, simulationTime) ==
    [made |-> TRUE,
     start_time |-> 0,
     stop_time |-> simulationTime,
     start_values |-> startValuesCont(pd, sd),
     output |-> outputVariables(dgs, sd)]

freshCall(pd, sd, dgs, simulationTime) ==
    [made |-> TRUE,
     start_time |-> 0,
     stop_time |-> simulationTime,
     start_values |-> startValuesFresh(pd),
     output |-> outputVariables(dgs, sd)]

\* a mutant of contCall: the stop time is not offset by the cursor
contCall_stopFromZero(pd, sd, dgs, cursor, simulationTime) ==
    [made |-> TRUE,
     start_time |-> cursor,
     stop_time |-> simulationTime,
     start_values |-> startValuesCont(pd, sd),
     output |-> outputVariables(dgs, sd)]

contCall(pd, sd, dgs, cursor, simulationTime) ==
    [made |-> TRUE,
     start_time |-> cursor,
     stop_time |-> cursor + simulationTime,
     start_values |-> startValuesCont(pd, sd),
     output |-> outputVariables(dgs, sd)]

\* for command in diagrams: eval(command) needs every column the command names
plotRaises(dgs, res) ==
    \E j \in DOMAIN dgs : \E col \in dgs[j] : col # "time" /\ col \notin DOMAIN res.cols

\* a mutant of stateFeedback: the State Entries are not written
stateFeedback_skipped(sd, sr, sv) == sd

\* for key in stateDict.keys(): stateDict[key] = model_get(key)
stateFeedback(sd, sr, sv) == [key \in DOMAIN sd |-> model_get(key, sr, sv).value]

\* prevFinalTime = sim_res['time'][-1]
finalTime(res) == res.time[Len(res.time)]

SimuInput(simulationTime, mode) == [simulationTime |-> simulationTime, mode |-> mode]

\* a mutant of modelFails: the cursor is advanced although the model failed
modelFails_cursorAdvanced(input, call) ==
    /\ last' = Report("simu", input, "model error", {}, call)
    /\ prevFinalTime' = call.stop_time
    /\ UNCHANGED << sim_res, stateDict, freshDone >>

\* a mutant of modelFails: the State Entries are cleared when the model failed
modelFails_stateCleared(input, call) ==
    /\ last' = Report("simu", input, "model error", {}, call)
    /\ stateDict' = [key \in DOMAIN stateDict |-> None]
    /\ UNCHANGED << sim_res, prevFinalTime, freshDone >>

\* simulate_fmu raises: the exception leaves simu() before sim_res is assigned
modelFails(input, call) ==
    /\ last' = Report("simu", input, "model error", {}, call)
    /\ UNCHANGED << sim_res, stateDict, prevFinalTime, freshDone >>

\* the steps of simu() from the assignment of start_values on
run(input, call, fresh) ==
    /\ start_values' = Defined(call.start_values)
    /\ \/ modelFails(input, call)
       \/ \E res \in simulate_fmu(call) :
             /\ sim_res' = Defined(res)
             /\ IF ~linecycler.defined
                THEN \* next(linecycler) raises NameError
                     /\ last' = Report("simu", input, "NameError", {}, call)
                     /\ UNCHANGED << stateDict, prevFinalTime, freshDone >>
                ELSE IF plotRaises(diagrams, res)
                THEN /\ last' = Report("simu", input, "ValueError", {}, call)
                     /\ UNCHANGED << stateDict, prevFinalTime, freshDone >>
                ELSE /\ stateDict' = stateFeedback(stateDict, Defined(res), Defined(call.start_values))
                     /\ prevFinalTime' = finalTime(res)
                     /\ freshDone' = (freshDone \/ fresh)
                     /\ last' = Report("simu", input, "ok", {}, call)

\* a mutant of noRun: the cursor is reset when no simulation is done
noRun_cursorReset(input, outcome, diag) ==
    /\ last' = Report("simu", input, outcome, diag, NoCall)
    /\ prevFinalTime' = 0
    /\ UNCHANGED << stateDict, sim_res, start_values, freshDone >>

noRun(input, outcome, diag) ==
    /\ last' = Report("simu", input, outcome, diag, NoCall)
    /\ UNCHANGED << stateDict, prevFinalTime, sim_res, start_values, freshDone >>

\* a mutant of simu: the continuation branch deletes the initial-value entries from
\* the store itself, not from a copy
simu_reducesStore(simulationTime, mode) ==
    LET input == SimuInput(simulationTime, mode) IN
    /\ UNCHANGED << diagrams, linecycler, startVars >>
    /\ parDict' = IF mode \in ContModes /\ ~contRefused(prevFinalTime) /\ ~KeyMissing(parDict)
                  THEN parDictRed(parDict) ELSE parDict
    /\ IF mode \in FreshModes
       THEN IF KeyMissing(parDict)
            THEN noRun(input, "KeyError", {})
            ELSE /\ simulationTime <= MaxTime
                 /\ run(input, freshCall(parDict, stateDict, diagrams, simulationTime), TRUE)
       ELSE IF mode \in ContModes
       THEN IF contRefused(prevFinalTime)
            THEN noRun(input, "ok",
                       {Diag("simulation is first done with default mode", mode),
                        Diag("no simulation done", mode)})
            ELSE IF KeyMissing(parDict)
            THEN noRun(input, "KeyError", {})
            ELSE /\ prevFinalTime + simulationTime <= MaxTime
                 /\ run(input, contCall(parDict, stateDict, diagrams, prevFinalTime,
                                        simulationTime), FALSE)
       ELSE noRun(input, "ok",
                  {Diag("simulation mode not correct", mode),
                   Diag("no simulation done", mode)})

simu(simulationTime, mode) ==
    LET input == SimuInput(simulationTime, mode) IN
    /\ UNCHANGED << parDict, diagrams, linecycler, startVars >>
    /\ IF mode \in FreshModes
       THEN IF KeyMissing(parDict)
            THEN noRun(input, "KeyError", {})
            ELSE /\ simulationTime <= MaxTime
                 /\ run(input, freshCall(parDict, stateDict, diagrams, simulationTime), TRUE)
       ELSE IF mode \in ContModes
       THEN IF contRefused(prevFinalTime)
            THEN noRun(input, "ok",
                       {Diag("simulation is first done with default mode", mode),
                        Diag("no simulation done", mode)})
            ELSE IF KeyMissing(parDict)
            THEN noRun(input, "KeyError", {})
            ELSE /\ prevFinalTime + simulationTime <= MaxTime
                 /\ run(input, contCall(parDict, stateDict, diagrams, prevFinalTime,
                                        simulationTime), FALSE)
       ELSE noRun(input, "ok",
                  {Diag("simulation mode not correct", mode),
                   Diag("no simulation done", mode)})

Next ==
    \/ \E x \in Updates : par(x)
    \/ \E x \in Updates : init(x)
    \/ \E plotType \in PlotTypes : newplot(plotType)
    \/ \E simulationTime \in Durations, mode \in Modes : simu(simulationTime, mode)

Spec == Init /\ [][Next]_vars

(***************************************************************************)
(* Start-up on its own: the script is loaded with a catalog whose state     *)
(* keys are any list of at most MaxKeys different keys, and the loop that   *)
(* builds stateDictInitial runs over them.  The script then goes on to set  *)
(* up parDict, unless an exception has ended it.                            *)
(***************************************************************************)
KeyNames == {"bioreactor.V", "bioreactor.m[1]", "bioreactor.m[2]", "foo[12]", "foo[123]",
             "foo[1234]", "c.limPID.I.y", "c.limPID.D.x", "D.x", "x]"}

KeyLists ==
    {keys \in UNION {[1..n -> {Spell(name) : name \in KeyNames}] : n \in 0..MaxKeys} :
        \A i, j \in DOMAIN keys : i # j => keys[i] # keys[j]}

InitStartup ==
    /\ startKeys \in KeyLists
    /\ stateDict = [key \in {Unspell(startKeys[i]) : i \in DOMAIN startKeys} |-> None]
    /\ parDict = << >>
    /\ prevFinalTime = 0
    /\ sim_res = Undefined
    /\ start_values = Undefined
    /\ diagrams = << >>
    /\ linecycler = Undefined
    /\ last = Report("start", << >>, "ok", {}, NoCall)
    /\ freshDone = FALSE
    /\ startInitial = << >>
    /\ startPc = "loading"
    /\ startDiag = {}

startup ==
    /\ startPc = "loading"
    /\ LET result == stateDictInitialLoop(startKeys, << >>) IN
          /\ startInitial' = result.map
          /\ startPc' = result.pc
          /\ startDiag' = result.diag
          /\ parDict' = IF result.pc = "ready" THEN parDict0 ELSE parDict
    /\ UNCHANGED << stateDict, prevFinalTime, sim_res, start_values,
                    diagrams, linecycler, last, freshDone, startKeys >>

NextStartup == startup

SpecStartup == InitStartup /\ [][NextStartup]_vars

(***************************************************************************)
(* The session with value queries: model_get(parLoc) called between the     *)
(* operations, with one name of each class of the catalog, a variable that  *)
(* is logged only when a diagram names it, and a name the catalog does not  *)
(* have.  The report of a query carries the returned value and the          *)
(* operation the query came after.  The only update is par(Y=0.6).          *)
(***************************************************************************)
QueryNames == {"liquidphase.X", "bioreactor.culture.Y", "bioreactor.V", "bioreactor.c[1]",
               "bioreactor.n", "no.such.variable"}

QueryUpdates == {x \in Updates : DOMAIN x = {"Y"}}

Answer(parLoc, result, previous) ==
    [op |-> "model_get", input |-> parLoc,
     outcome |-> IF result.raised = "nothing" THEN "ok" ELSE result.raised,
     diag |-> IF result.printed = "nothing" THEN {} ELSE {Diag(result.printed, parLoc)},
     call |-> NoCall, value |-> result.value,
     after |-> [op |-> previous.op, outcome |-> previous.outcome, call |-> previous.call]]

call_model_get(parLoc) ==
    /\ last' = Answer(parLoc, model_get(parLoc, sim_res, start_values), last)
    /\ UNCHANGED << parDict, stateDict, prevFinalTime, sim_res, start_values,
                    diagrams, linecycler, freshDone, startVars >>

NextQuery ==
    \/ \E x \in QueryUpdates : par(x)
    \/ \E plotType \in PlotTypes : newplot(plotType)
    \/ \E simulationTime \in Durations, mode \in Modes : simu(simulationTime, mode)
    \/ \E parLoc \in QueryNames : call_model_get(parLoc)

SpecQuery == Init /\ [][NextQuery]_vars

(***************************************************************************)
(* What a step was: the operation recorded in last'.                        *)
(***************************************************************************)
IsSimu(r) == r.op = "simu"
IsCont(r) == r.op = "simu" /\ r.input.mode \in ContModes
IsFresh(r) == r.op = "simu" /\ r.input.mode \in FreshModes
Invoked(r) == r.call.made
ModelFailed(r) == r.op = "simu" /\ r.outcome = "model error"

RefusalDiag(mode) ==
    {Diag("simulation is first done with default mode", mode), Diag("no simulation done", mode)}

\* the requirements a report names as not holding
ReportedRequirements(r) == {d.about : d \in {e \in r.diag : e.kind = "requirement does not hold"}}

\* the requirements of parCheck that the store pd violates
ViolatedRequirements(pd) == {parCheck[i].key : i \in {j \in DOMAIN parCheck : ~Holds(parCheck[j], pd)}}

(***************************************************************************)
(* C1: simu() in continuation mode while prevFinalTime is zero reports the  *)
(* usage error, does not call the external model and leaves the cursor, the *)
(* State Entries, the Simulation Result and the override set as they were.  *)
(***************************************************************************)
C1_ContAtZeroCursorRefused ==
    [][ (IsCont(last') /\ prevFinalTime = 0) =>
          /\ RefusalDiag(last'.input.mode) \subseteq last'.diag
          /\ last'.outcome = "ok"
          /\ ~Invoked(last')
          /\ prevFinalTime' = prevFinalTime
          /\ stateDict' = stateDict
          /\ sim_res' = sim_res
          /\ start_values' = start_values ]_vars

\* a refused continuation after a run whose result exists although the cursor is zero
C1_Witness ==
    /\ IsCont(last) /\ prevFinalTime = 0
    /\ RefusalDiag(last.input.mode) \subseteq last.diag
    /\ sim_res.defined

(***************************************************************************)
(* C2: a continuation run of duration d calls the model over                *)
(* [cursor, cursor + d], and when it completes the cursor is its value       *)
(* before the run plus d.                                                    *)
(***************************************************************************)
C2_ContAdvancesCursor ==
    [][ (IsCont(last') /\ Invoked(last')) =>
          /\ last'.call.start_time = prevFinalTime
          /\ last'.call.stop_time = prevFinalTime + last'.input.simulationTime
          /\ (last'.outcome = "ok" =>
                prevFinalTime' = prevFinalTime + last'.input.simulationTime) ]_vars

\* fresh(d1) then cont(d2) completed: the cursor is d1 + d2
C2_Witness ==
    /\ IsCont(last) /\ Invoked(last) /\ last.outcome = "ok"
    /\ freshDone
    /\ last.call.start_time > 0
    /\ prevFinalTime = last.call.start_time + last.input.simulationTime

(***************************************************************************)
(* C3: the override set of a continuation run is, location by location:     *)
(* the store's value for every store entry whose location is not a derived  *)
(* initial-value location, and the State Entry value for the derived        *)
(* initial-value location of every State Entry key; no initial-value        *)
(* location carries the store's value.                                       *)
(***************************************************************************)
InitialValueLocations == {stateDictInitial[key] : key \in StateKeys}

PlainKeys(pd) == {k \in DOMAIN pd : parLocation[k] \notin InitialValueLocations}

ExpectedContOverrides(pd, sd) ==
    [loc \in {parLocation[k] : k \in PlainKeys(pd)} \cup InitialValueLocations |->
        IF loc \in InitialValueLocations
        THEN sd[CHOOSE key \in StateKeys : stateDictInitial[key] = loc]
        ELSE pd[CHOOSE k \in PlainKeys(pd) : parLocation[k] = loc]]

C3_ContOverrideSet ==
    [][ (IsCont(last') /\ Invoked(last')) =>
          /\ last'.call.start_values = ExpectedContOverrides(parDict, stateDict)
          /\ start_values' = Defined(ExpectedContOverrides(parDict, stateDict)) ]_vars

\* a continuation after Y was set to 0.6 and V_start to 0 in the store: Y's override
\* is 0.6 and the override of bioreactor.V_start is the carried state, not 0 or 1.0
C3_Witness ==
    /\ IsCont(last) /\ Invoked(last) /\ last.outcome = "ok"
    /\ last.call.start_values["bioreactor.culture.Y"] = 6
    /\ parDict["V_start"] = 0
    /\ last.call.start_values["bioreactor.V_start"] \notin {0, 10, None}

(***************************************************************************)
(* C4: when the external model fails in a fresh or continuation run, the     *)
(* failure leaves simu() and every State Entry value and the cursor are      *)
(* what they were before the call.                                           *)
(***************************************************************************)
C4_ModelFailureKeepsStateAndCursor ==
    [][ (ModelFailed(last') /\ Invoked(last')) =>
          /\ stateDict' = stateDict
          /\ prevFinalTime' = prevFinalTime ]_vars

\* a model failure in a continuation run that follows a completed run
C4_Witness ==
    /\ ModelFailed(last) /\ IsCont(last) /\ Invoked(last)
    /\ prevFinalTime > 0
    /\ \A key \in StateKeys : stateDict[key] # None

(***************************************************************************)
(* C5 (as claimed): after a failed model invocation the store, the State     *)
(* Entries, the cursor, the Simulation Result and the override set are all   *)
(* what they were before the call, and every model_get() query answers as    *)
(* before.                                                                   *)
(***************************************************************************)
C5_FailureKeepsWholeSession ==
    [][ ModelFailed(last') =>
          /\ parDict' = parDict
          /\ stateDict' = stateDict
          /\ prevFinalTime' = prevFinalTime
          /\ sim_res' = sim_res
          /\ start_values' = start_values
          /\ \A name \in CatalogNames :
                model_get(name, sim_res', start_values') = model_get(name, sim_res, start_values) ]_vars

(***************************************************************************)
(* C6: every call of the external model in continuation mode comes after a   *)
(* fresh-mode run that completed and set the State Entries and the cursor.   *)
(***************************************************************************)
C6_ContOnlyAfterFresh ==
    [][ (IsCont(last') /\ Invoked(last')) =>
          /\ freshDone
          /\ prevFinalTime # 0
          /\ \A key \in StateKeys : stateDict[key] # None ]_vars

\* a continuation call made in a session that also saw a refused continuation
\* and a failed run: the state here is a failed continuation after the fresh run
C6_Witness ==
    /\ IsCont(last) /\ Invoked(last) /\ freshDone
    /\ last.outcome = "model error"
    /\ last.call.start_time = prevFinalTime

(***************************************************************************)
(* C7: par() with a key that is not in the store reports it, does not add    *)
(* it to the store, and still applies the known keys of the same call.       *)
(***************************************************************************)
C7_ParUnknownKeySkipped ==
    [][ last'.op = "par" =>
          \A key \in DOMAIN last'.input :
             IF key \in DOMAIN parDict
             THEN parDict'[key] = last'.input[key]
             ELSE /\ Diag("not an accessible parameter", key) \in last'.diag
                  /\ key \notin DOMAIN parDict' ]_vars

\* par(bogus_name=0.6, Y=0.6): Y is set, bogus_name reported and not stored
C7_Witness ==
    /\ last.op = "par"
    /\ DOMAIN last.input = {"bogus_name", "Y"}
    /\ parDict["Y"] = 6
    /\ "bogus_name" \notin DOMAIN parDict
    /\ Diag("not an accessible parameter", "bogus_name") \in last.diag

(***************************************************************************)
(* C8: par() is fail-open: the requirements are evaluated against the store  *)
(* after the update, each violated requirement is reported, and the update   *)
(* is in the store whether or not a requirement is violated.                 *)
(***************************************************************************)
C8_ParFailOpen ==
    [][ last'.op = "par" =>
          /\ \A key \in (DOMAIN last'.input) \cap (DOMAIN parDict) :
                parDict'[key] = last'.input[key]
          /\ ReportedRequirements(last') = ViolatedRequirements(parDict') ]_vars

\* par(V_start=0): the store holds 0 and the requirement on V_start is reported
C8_Witness ==
    /\ last.op = "par"
    /\ "V_start" \in DOMAIN last.input
    /\ parDict["V_start"] = 0
    /\ ReportedRequirements(last) = {"V_start"}

(***************************************************************************)
(* C9 (as claimed): whichever operation changes a value of the store, par()  *)
(* or init(), reports every requirement the store violates after it.         *)
(***************************************************************************)
C9_RequirementsCheckedAfterEveryMutation ==
    [][ (last'.op \in {"par", "init"} /\ parDict' # parDict) =>
          ReportedRequirements(last') = ViolatedRequirements(parDict') ]_vars

(***************************************************************************)
(* C10: par() and init() are idempotent: for every store and every update    *)
(* map, the update applied twice gives the store it gives applied once, and  *)
(* a call repeated with the same update map leaves the store as it is.       *)
(***************************************************************************)
C10_UpdatesIdempotent ==
    /\ [](\A x \in Updates :
            /\ parUpdate(parUpdate(parDict, x), x) = parUpdate(parDict, x)
            /\ initUpdate(initUpdate(parDict, x), x) = initUpdate(parDict, x))
    /\ [][ (/\ last'.op \in {"par", "init"}
            /\ last.op = last'.op
            /\ last.input = last'.input) => parDict' = parDict ]_vars

\* init() has stored a key and a value, and applying the same map again changes nothing
C10_Witness ==
    /\ last.op = "init"
    /\ DOMAIN last.input = {"V_start", "bioreactor.V_start"}
    /\ parDict["V_start"] = 0 /\ parDict["bioreactor.V_start"] = 6
    /\ initUpdate(parDict, last.input) = parDict

(***************************************************************************)
(* C11: par() affects only the keys named in the update: the store has the   *)
(* same keys after the call as before, and every key the update does not     *)
(* name keeps its value.                                                     *)
(***************************************************************************)
C11_ParFrame ==
    [][ last'.op = "par" =>
          /\ DOMAIN parDict' = DOMAIN parDict
          /\ \A key \in (DOMAIN parDict) \ (DOMAIN last'.input) :
                parDict'[key] = parDict[key] ]_vars

\* par(Y=0.6) on a store that init() had changed before: V_start is still 0 and
\* the key init() added is still there
C11_Witness ==
    /\ last.op = "par"
    /\ DOMAIN last.input = {"Y"}
    /\ parDict["Y"] = 6
    /\ parDict["V_start"] = 0
    /\ "bioreactor.V_start" \in DOMAIN parDict

(***************************************************************************)
(* C12: init() writes every key of the update whose name contains '_start'   *)
(* to the store; a key without the marker is reported and the store is left  *)
(* as it was for that key, and the remaining keys are still handled.         *)
(***************************************************************************)
C12_InitAcceptsOnlyStartKeys ==
    [][ last'.op = "init" =>
          \A key \in DOMAIN last'.input :
             IF key \in {"V_start", "VX_start", "VS_start", "bioreactor.V_start"}
             THEN /\ key \in DOMAIN parDict'
                  /\ parDict'[key] = last'.input[key]
             ELSE /\ Diag("not an initial value", key) \in last'.diag
                  /\ (key \in DOMAIN parDict') = (key \in DOMAIN parDict)
                  /\ key \in DOMAIN parDict => parDict'[key] = parDict[key] ]_vars

\* init(Y=0.6, V_start=0): V_start is written, Y is reported and keeps 0.5
C12_Witness ==
    /\ last.op = "init"
    /\ DOMAIN last.input = {"Y", "V_start"}
    /\ parDict["V_start"] = 0
    /\ parDict["Y"] = 5
    /\ Diag("not an initial value", "Y") \in last.diag

(***************************************************************************)
(* C19: simu() with a mode string that names neither mode reports the usage  *)
(* error, does not call the model and changes nothing.                       *)
(***************************************************************************)
C19_UnknownModeNoEffect ==
    [][ (last'.op = "simu" /\ last'.input.mode \notin
            {"Initial", "initial", "init", "Continued", "continued", "cont"}) =>
          /\ Diag("simulation mode not correct", last'.input.mode) \in last'.diag
          /\ ~last'.call.made
          /\ parDict' = parDict
          /\ stateDict' = stateDict
          /\ prevFinalTime' = prevFinalTime
          /\ sim_res' = sim_res
          /\ start_values' = start_values ]_vars

\* the unknown mode after a completed run: the cursor and the result are still there
C19_Witness ==
    /\ last.op = "simu" /\ last.input.mode = "restart"
    /\ Diag("simulation mode not correct", "restart") \in last.diag
    /\ prevFinalTime > 0
    /\ sim_res.defined

(***************************************************************************)
(* C20 (as claimed): every key of the store has an entry in parLocation,     *)
(* whatever par(), init() and simu() calls were made.                        *)
(***************************************************************************)
C20_EveryStoreKeyHasLocation ==
    DOMAIN parDict \subseteq DOMAIN parLocation

(***************************************************************************)
(* C13: in both modes the output list passed to the model has no duplicate,  *)
(* holds every State Entry key and every key variable, and apart from these  *)
(* only catalog variables of causality 'local' whose name occurs in one of   *)
(* the diagram commands; this for an empty diagram list too.                 *)
(***************************************************************************)
C13_OutputList ==
    (last.op = "simu" /\ last.call.made) =>
       LET out == last.call.output
           always == (DOMAIN stateDict) \cup
                     {"bioreactor.culture.mu", "bioreactor.V", "bioreactor.m[1]", "bioreactor.m[2]"}
       IN  /\ \A i, j \in DOMAIN out : i # j => out[i] # out[j]
           /\ always \subseteq Range(out)
           /\ \A name \in Range(out) \ always :
                 /\ \E k \in DOMAIN modelVariables :
                       modelVariables[k].name = name /\ modelVariables[k].causality = "local"
                 /\ \E j \in DOMAIN diagrams : name \in diagrams[j]

\* a continuation run with the TimeSeries diagrams: c[1], c[2] and mu (which is a
\* key variable as well) next to the three states: six names
C13_Witness ==
    /\ IsCont(last) /\ last.call.made
    /\ Len(diagrams) = 3
    /\ "bioreactor.c[1]" \in Range(last.call.output)
    /\ Len(last.call.output) = 6

(***************************************************************************)
(* C14: every state key of a supported shape that start-up derived a name   *)
(* for has the name of the rule table, first match wins: ending I.y: the    *)
(* last ten characters dropped and I_start appended; ending D.x: the same   *)
(* with D_start; ending [n] with n of one, two or three digits: _start put  *)
(* immediately before the bracket; otherwise _start appended.  When every   *)
(* key has a supported shape, every key has a derived name.                 *)
(***************************************************************************)
Digits == {"0", "1", "2", "3", "4", "5", "6", "7", "8", "9"}

\* key is head [ n ] with n a block of digits characters
IndexedAt(key, digits) ==
    /\ Len(key) >= digits + 2
    /\ key[Len(key)] = "]"
    /\ key[Len(key) - digits - 1] = "["
    /\ \A i \in (Len(key) - digits)..(Len(key) - 1) : key[i] \in Digits

EndsWith(key, suffix) ==
    /\ Len(key) >= Len(suffix)
    /\ \A i \in 1..Len(suffix) : key[Len(key) - Len(suffix) + i] = suffix[i]

SupportedShape(key) ==
    \/ Len(key) >= 1 /\ key[Len(key)] # "]"
    \/ \E digits \in 1..3 : IndexedAt(key, digits)

\* prefix is key without its last n characters (nothing is left of a shorter key)
IsKeyWithout(prefix, key, n) ==
    /\ Len(prefix) = (IF Len(key) > n THEN Len(key) - n ELSE 0)
    /\ \A i \in 1..Len(prefix) : prefix[i] = key[i]

FollowsRuleTable(key, name) ==
    IF EndsWith(key, << "I", ".", "y" >>)
    THEN \E prefix \in {SubSeq(name, 1, Len(name) - 7)} :
            IsKeyWithout(prefix, key, 10)
            /\ name = prefix \o << "I", "_", "s", "t", "a", "r", "t" >>
    ELSE IF EndsWith(key, << "D", ".", "x" >>)
    THEN \E prefix \in {SubSeq(name, 1, Len(name) - 7)} :
            IsKeyWithout(prefix, key, 10)
            /\ name = prefix \o << "D", "_", "s", "t", "a", "r", "t" >>
    ELSE IF \E digits \in 1..3 : IndexedAt(key, digits)
    THEN LET digits == CHOOSE d \in 1..3 : IndexedAt(key, d)
             open == Len(key) - digits - 1
         IN  name = SubSeq(key, 1, open - 1) \o << "_", "s", "t", "a", "r", "t" >>
                    \o SubSeq(key, open, Len(key))
    ELSE name = key \o << "_", "s", "t", "a", "r", "t" >>

C14_DerivedNameFollowsRuleTable ==
    startPc # "loading" =>
       /\ \A key \in DOMAIN startInitial :
             SupportedShape(key) => FollowsRuleTable(key, startInitial[key])
       /\ (\A i \in DOMAIN startKeys : SupportedShape(startKeys[i]))
             => /\ startPc = "ready"
                /\ DOMAIN startInitial = Range(startKeys)

\* start-up derived bioreactor.m_start[1] for bioreactor.m[1] and a name for an
\* integrator state
C14_Witness ==
    /\ startPc = "ready"
    /\ Len(startKeys) = 2
    /\ Spell("bioreactor.m[1]") \in DOMAIN startInitial
    /\ startInitial[Spell("bioreactor.m[1]")] = Spell("bioreactor.m_start[1]")
    /\ Spell("c.limPID.I.y") \in DOMAIN startInitial
    /\ startInitial[Spell("c.limPID.I.y")] = << "c", ".", "I", "_", "s", "t", "a", "r", "t" >>

(***************************************************************************)
(* C15: whenever start-up completes, stateDictInitial has an entry for      *)
(* every state key: a key with an unsupported bracket suffix aborts         *)
(* start-up.                                                                *)
(***************************************************************************)
C15_MappingTotalWhenReady ==
    (startPc = "ready" /\ parDict = parDict0) =>
       \A key \in DOMAIN stateDict : Spell(key) \in DOMAIN startInitial

(***************************************************************************)
(* C16: while no Simulation Result exists, model_get returns the catalog    *)
(* start value for a constant local variable and for a variable of          *)
(* causality parameter, and for a continuous variable and a                 *)
(* calculatedParameter it returns None, prints a diagnostic and raises      *)
(* nothing.                                                                 *)
(***************************************************************************)
C16_AccessorBeforeFirstResult ==
    (last.op = "model_get" /\ ~sim_res.defined /\ last.input \in CatalogNames) =>
       LET v == CatalogEntry(last.input) IN
       /\ last.outcome = "ok"
       /\ ((v.causality = "local" /\ v.variability = "constant") \/ v.causality = "parameter")
             => (last.value = v.start /\ last.diag = {})
       /\ (v.causality = "calculatedParameter"
             \/ (v.causality = "local" /\ v.variability = "continuous"))
             => (last.value = None /\ last.diag # {})

\* the continuous bioreactor.V asked for after a failed model invocation, which has
\* assigned start_values but no sim_res
C16_Witness ==
    /\ last.op = "model_get" /\ last.input = "bioreactor.V"
    /\ ~sim_res.defined /\ start_values.defined
    /\ last.value = None /\ last.outcome = "ok"
    /\ last.diag = {Diag("information available after first simulation", "bioreactor.V")}

(***************************************************************************)
(* C17: model_get never raises: for every name, one the catalog does not    *)
(* have included, and in every state of the session, it returns a value or  *)
(* None to its caller.                                                      *)
(***************************************************************************)
C17_AccessorNeverRaises ==
    last.op = "model_get" => last.outcome = "ok"

(***************************************************************************)
(* C18: a query made directly after a run that completed answers, for a     *)
(* location of the override set of that run, with the value the run used:   *)
(* after par() has changed a parameter, model_get(parLocation[p]) is the    *)
(* changed value, not the catalog's.                                        *)
(***************************************************************************)
C18_AccessorReportsLastRunValue ==
    (/\ last.op = "model_get"
     /\ last.after.op = "simu" /\ last.after.outcome = "ok" /\ last.after.call.made
     /\ last.input \in DOMAIN last.after.call.start_values)
       => last.value = last.after.call.start_values[last.input]

(***************************************************************************)
(* C21: a fresh-mode run is called over [0, duration] with, for every key   *)
(* of the store, the store's value at the key's location and nothing else,  *)
(* whatever the cursor and the State Entries are; when it completes, the    *)
(* cursor is the final timestamp of its result.                             *)
(***************************************************************************)
C21_FreshRunFromStore ==
    [][ (IsFresh(last') /\ Invoked(last')) =>
          /\ last'.call.start_time = 0
          /\ last'.call.stop_time = last'.input.simulationTime
          /\ DOMAIN last'.call.start_values = {parLocation[k] : k \in DOMAIN parDict}
          /\ \A k \in DOMAIN parDict : last'.call.start_values[parLocation[k]] = parDict[k]
          /\ start_values' = Defined(last'.call.start_values)
          /\ (last'.outcome = "ok" =>
                /\ sim_res'.content.time[1] = 0
                /\ prevFinalTime' = sim_res'.content.time[Len(sim_res'.content.time)]
                /\ prevFinalTime' = last'.input.simulationTime) ]_vars

\* a fresh call made while the latest result is that of a continuation run (its
\* first timestamp is not 0): the cursor and the State Entries are carried values,
\* and the override of bioreactor.V_start is the store's value
C21_Witness ==
    /\ IsFresh(last) /\ Invoked(last)
    /\ sim_res.defined /\ sim_res.content.time[1] > 0
    /\ prevFinalTime > last.call.stop_time
    /\ stateDict["bioreactor.V"] \notin {None, parDict["V_start"]}
    /\ last.call.start_time = 0
    /\ last.call.start_values["bioreactor.V_start"] = parDict["V_start"]

(***************************************************************************)
(* C22: whenever a Simulation Result exists, the cursor is the final        *)
(* timestamp of the result and every State Entry value is the last sample   *)
(* of its key in the result; also after a simu() whose post-run steps       *)
(* failed once the model had returned.                                      *)
(***************************************************************************)
C22_SessionConsistentWithResult ==
    sim_res.defined =>
       /\ prevFinalTime = sim_res.content.time[Len(sim_res.content.time)]
       /\ \A key \in DOMAIN stateDict :
             /\ key \in DOMAIN sim_res.content.cols
             /\ stateDict[key] = sim_res.content.cols[key][Len(sim_res.content.cols[key])]

(***************************************************************************)
(* C23: when the cursor is not zero no State Entry is None, and the         *)
(* override set of a continuation run has no None at an initial-value       *)
(* location.                                                                *)
(***************************************************************************)
C23_StateDefinedOnceCursorSet ==
    /\ prevFinalTime # 0 => \A key \in DOMAIN stateDict : stateDict[key] # None
    /\ (IsCont(last) /\ Invoked(last)) =>
          \A key \in StateKeys :
             /\ stateDictInitial[key] \in DOMAIN last.call.start_values
             /\ last.call.start_values[stateDictInitial[key]] # None

\* a continuation call whose initial-value overrides are numbers, made with the
\* cursor set; the State Entries were None when the session started
C23_Witness ==
    /\ IsCont(last) /\ Invoked(last)
    /\ prevFinalTime # 0
    /\ \A key \in StateKeys : stateDict0[key] = None /\ stateDict[key] > 0
    /\ \A key \in StateKeys : last.call.start_values[stateDictInitial[key]] > 0

(***************************************************************************)
(* C25: no step adds or removes a State Entry key, and a State Entry value   *)
(* changes only in a simu() step whose run completed.                       *)
(***************************************************************************)
C25_StateKeysFixed ==
    [][ /\ DOMAIN stateDict' = StateKeys
        /\ DOMAIN stateDict = StateKeys
        /\ stateDict' # stateDict =>
              (IsSimu(last') /\ Invoked(last') /\ last'.outcome = "ok") ]_vars

\* init() has added a key to the store, runs have written values to the State
\* Entries, and the keys of the State Entries are those of the catalog
C25_Witness ==
    /\ last.op = "init"
    /\ "bioreactor.V_start" \in DOMAIN parDict
    /\ DOMAIN stateDict = {"bioreactor.V", "bioreactor.m[1]", "bioreactor.m[2]"}
    /\ \A key \in DOMAIN stateDict : stateDict[key] # None

(***************************************************************************)
(* C24: no simu() step, in any mode and with any outcome, changes the       *)
(* Parameter Store; the initial-value entries of the store hold the values  *)
(* the user set after any number of runs.  (The Location Mapping is not     *)
(* assigned after start-up.)                                                *)
(***************************************************************************)
C24_SimuKeepsStore ==
    [][ IsSimu(last') => parDict' = parDict ]_vars

\* a continuation run has completed, the State Entry of V has a carried value, and
\* the store still has V_start = 0 as par() set it and its other initial values
C24_Witness ==
    /\ IsCont(last) /\ Invoked(last) /\ last.outcome = "ok"
    /\ parDict["V_start"] = 0 /\ parDict["VX_start"] = 10 /\ parDict["VS_start"] = 100
    /\ last.call.start_values["bioreactor.V_start"] # parDict["V_start"]
    /\ stateDict["bioreactor.V"] # parDict["V_start"]

=============================================================================
